---------------------------- MODULE Spec2Model ----------------------------
(***************************************************************************)
(* A model of kraken-bot: the fixed-point decimal helpers                  *)
(* (src/utils/bigint.ts), the API client with its nonce generator and      *)
(* request signing (src/client/KrakenClient.ts, src/utils/crypto.ts), the  *)
(* typed endpoint wrappers (src/api/*.ts), the orchestrator (index.ts) and *)
(* the single-file bot it was refactored from (index.ts.old).              *)
(*                                                                         *)
(* JavaScript strings are sequences of tokens: decimal strings are held    *)
(* character by character, so that split, padStart, padEnd and slice act   *)
(* on characters as the code does; a word the code never looks inside (a   *)
(* field name, a path, a message) is one token.  A bigint is held as its   *)
(* canonical decimal rendering (value.toString()), which keeps arbitrary   *)
(* precision.                                                              *)
(***************************************************************************)
EXTENDS Integers, Sequences, FiniteSets, TLC

VARIABLES
    fx,            \* harness of the pure helpers: inputs, intermediate text, result
    clock,         \* what Date.now() returns at this moment
    client,        \* per client instance: the fields of KrakenClient
    issued,        \* per client: the values generateNonce has returned, in order
    call,          \* per client: the request()/publicRequest() call in progress or last finished
    run            \* one run of main(): position, locals, requests issued, exit status

vars == <<fx, clock, client, issued, call, run>>

(***************************************************************************)
(* Bounds of the model.                                                    *)
(***************************************************************************)
MaxUnits == 120
MaxScale == 3
MaxClock == 3
MaxCalls == 3
MaxWhole == 2

(***************************************************************************)
(* Strings.                                                                *)
(***************************************************************************)
Digits == <<"0", "1", "2", "3", "4", "5", "6", "7", "8", "9">>

IsDigit(c) == \E i \in 1..10 : Digits[i] = c

DigitValue(c) == (CHOOSE i \in 1..10 : Digits[i] = c) - 1

Min(a, b) == IF a < b THEN a ELSE b

Max(a, b) == IF a > b THEN a ELSE b

\* Number.prototype.toString / BigInt.prototype.toString of a non-negative integer
RECURSIVE NatToString(_)
NatToString(n) ==
    IF n < 10 THEN <<Digits[n + 1]>>
    ELSE NatToString(n \div 10) \o <<Digits[(n % 10) + 1]>>

RECURSIVE Repeat(_, _)
Repeat(c, n) == IF n <= 0 THEN <<>> ELSE <<c>> \o Repeat(c, n - 1)

\* String.prototype.padStart(targetLength, fill) with a one-character fill
padStart(str, targetLength, fill) == Repeat(fill, targetLength - Len(str)) \o str

\* String.prototype.padEnd(targetLength, fill) with a one-character fill
padEnd(str, targetLength, fill) == str \o Repeat(fill, targetLength - Len(str))

\* The index String.prototype.slice derives from an argument: a negative
\* argument counts from the end, and -0 is 0.
SliceIndex(str, k) == IF k < 0 THEN Max(Len(str) + k, 0) ELSE Min(k, Len(str))

\* String.prototype.slice(begin, end)
slice2(str, begin, end) ==
    LET from == SliceIndex(str, begin)
        to   == SliceIndex(str, end)
    IN  IF from >= to THEN <<>> ELSE SubSeq(str, from + 1, to)

\* String.prototype.slice(begin)
slice1(str, begin) == slice2(str, begin, Len(str))

\* String.prototype.split(sep) with a one-character separator: the pieces
\* between separators, at least one piece.
RECURSIVE split(_, _)
split(str, sep) ==
    IF \A i \in 1..Len(str) : str[i] # sep THEN <<str>>
    ELSE LET i == CHOOSE j \in 1..Len(str) :
                     /\ str[j] = sep
                     /\ \A k \in 1..(j - 1) : str[k] # sep
         IN  <<SubSeq(str, 1, i - 1)>> \o split(SubSeq(str, i + 1, Len(str)), sep)

(***************************************************************************)
(* BigInt.  BigInt(string) accepts an optional sign followed by decimal    *)
(* digits, and the empty string (0n); anything else is a SyntaxError.      *)
(* The model's alphabet holds no white space and no 0x/0o/0b prefix.       *)
(***************************************************************************)
SyntaxError == [ok |-> FALSE, error |-> "SyntaxError"]

RECURSIVE StripLeadingZeros(_)
StripLeadingZeros(ds) ==
    IF Len(ds) > 1 /\ ds[1] = "0" THEN StripLeadingZeros(Tail(ds)) ELSE ds

AllDigits(s) == \A i \in 1..Len(s) : IsDigit(s[i])

BigIntFromString(s) ==
    IF s = <<>> THEN [ok |-> TRUE, value |-> <<"0">>]
    ELSE LET signed == s[1] \in {"-", "+"}
             ds     == IF signed THEN Tail(s) ELSE s
             mag    == StripLeadingZeros(ds)
         IN  IF ds = <<>> \/ ~AllDigits(ds) THEN SyntaxError
             ELSE IF s[1] = "-" /\ mag # <<"0">>
                  THEN [ok |-> TRUE, value |-> <<"-">> \o mag]
                  ELSE [ok |-> TRUE, value |-> mag]

IsNegative(b) == b[1] = "-"

Magnitude(b) == IF IsNegative(b) THEN Tail(b) ELSE b

\* x < y for two magnitudes without leading zeros
MagLess(x, y) ==
    \/ Len(x) < Len(y)
    \/ /\ Len(x) = Len(y)
       /\ \E i \in 1..Len(x) :
            /\ DigitValue(x[i]) < DigitValue(y[i])
            /\ \A k \in 1..(i - 1) : x[k] = y[k]

\* a < b on bigints
BigIntLess(a, b) ==
    CASE IsNegative(a) /\ ~IsNegative(b) -> TRUE
      [] ~IsNegative(a) /\ IsNegative(b) -> FALSE
      [] IsNegative(a) /\ IsNegative(b)  -> MagLess(Magnitude(b), Magnitude(a))
      [] OTHER                           -> MagLess(a, b)

Zero == <<"0">>

(***************************************************************************)
(* src/utils/bigint.ts                                                     *)
(***************************************************************************)
\* parseDecimalToBigInt keeping every fractional digit it is given
parseDecimalToBigInt_noTruncate(value, decimals) ==
    LET parts    == split(value, ".")
        fraction == IF Len(parts) >= 2 THEN parts[2] ELSE <<>>
    IN  BigIntFromString(parts[1] \o padEnd(fraction, decimals, "0"))

parseDecimalToBigInt(value, decimals) ==
    LET parts          == split(value, ".")
        whole          == parts[1]
        fraction       == IF Len(parts) >= 2 THEN parts[2] ELSE <<>>
        paddedFraction == slice2(padEnd(fraction, decimals, "0"), 0, decimals)
    IN  BigIntFromString(whole \o paddedFraction)

bigIntToDecimal(value, decimals) ==
    LET str      == padStart(value, decimals + 1, "0")
        cut      == slice2(str, 0, 0 - decimals)
        whole    == IF cut = <<>> THEN <<"0">> ELSE cut
        fraction == slice1(str, 0 - decimals)
    IN  whole \o <<".">> \o fraction

(***************************************************************************)
(* The helpers on their own: the inputs are drawn at the start, Format     *)
(* renders the units and Parse reads the text back.                        *)
(***************************************************************************)
Idle == [stage |-> "idle"]

InitBigInt ==
    /\ fx \in [stage : {"input"}, units : 0..MaxUnits, scale : 0..MaxScale,
               text : {<<>>}, parsed : {SyntaxError}]
    /\ clock = 0
    /\ client = [c \in {} |-> 0]
    /\ issued = [c \in {} |-> <<>>]
    /\ call = [c \in {} |-> Idle]
    /\ run = Idle

Format ==
    /\ fx.stage = "input"
    /\ fx' = [fx EXCEPT !.stage = "formatted",
                        !.text = bigIntToDecimal(NatToString(fx.units), fx.scale)]
    /\ UNCHANGED <<clock, client, issued, call, run>>

Parse ==
    /\ fx.stage = "formatted"
    /\ fx' = [fx EXCEPT !.stage = "parsed",
                        !.parsed = parseDecimalToBigInt(fx.text, fx.scale)]
    /\ UNCHANGED <<clock, client, issued, call, run>>

NextBigInt == Format \/ Parse

SpecBigInt == InitBigInt /\ [][NextBigInt]_vars

\* C2 (as stated): for every non-negative integer u and every scale s >= 0,
\* parseDecimalToBigInt(bigIntToDecimal(u, s), s) = u.
C2_RoundTripAllScales ==
    fx.stage = "parsed" =>
        /\ fx.parsed.ok
        /\ fx.parsed.value = NatToString(fx.units)

(***************************************************************************)
(* The helpers on decimal strings and on units of any size: a decimal      *)
(* string is drawn as its integer digits and, when it has a decimal point, *)
(* its fractional digits; the units are the bigint those digits spell.     *)
(* The documented examples are among the inputs.                           *)
(***************************************************************************)
DecimalAlphabet == {"0", "5", "9"}

DigitStrings(n) == UNION { [1..k -> DecimalAlphabet] : k \in 0..n }

DecimalExamples ==
    { [whole |-> <<"3", "6", "6">>,
       fraction |-> <<<<"1", "4", "8", "8", "6", "4", "0", "0">>>>, scale |-> 8],
      [whole |-> <<"0">>,
       fraction |-> <<<<"0", "0", "0", "0", "0", "0", "0", "0">>>>, scale |-> 8],
      [whole |-> <<"1", "0">>, fraction |-> <<<<"5", "0">>>>, scale |-> 2] }

DecimalInputs ==
    [whole    : DigitStrings(MaxWhole),
     fraction : {<<>>} \cup { <<f>> : f \in DigitStrings(MaxScale + 1) },
     scale    : 0..MaxScale]
    \cup DecimalExamples

\* The decimal string: the integer digits, then the point and the fractional
\* digits if there are any
TextOf(in) ==
    in.whole \o (IF in.fraction = <<>> THEN <<>> ELSE <<".">> \o in.fraction[1])

\* The bigint whose decimal digits are the integer digits followed by the
\* fractional digits
UnitsOf(in) ==
    StripLeadingZeros(IF in.whole \o (IF in.fraction = <<>> THEN <<>> ELSE in.fraction[1]) = <<>>
                      THEN <<"0">>
                      ELSE in.whole \o (IF in.fraction = <<>> THEN <<>> ELSE in.fraction[1]))

InitDecimal ==
    /\ \E in \in DecimalInputs :
          fx = [stage |-> "input", whole |-> in.whole, fraction |-> in.fraction,
                scale |-> in.scale, text |-> TextOf(in), units |-> UnitsOf(in),
                parsed |-> SyntaxError, formatted |-> <<>>]
    /\ clock = 0
    /\ client = [c \in {} |-> 0]
    /\ issued = [c \in {} |-> <<>>]
    /\ call = [c \in {} |-> Idle]
    /\ run = Idle

ParseDecimal ==
    /\ fx.stage = "input"
    /\ fx' = [fx EXCEPT !.stage = "parsed",
                        !.parsed = parseDecimalToBigInt(fx.text, fx.scale)]
    /\ UNCHANGED <<clock, client, issued, call, run>>

FormatUnits ==
    /\ fx.stage = "input"
    /\ fx' = [fx EXCEPT !.stage = "formatted",
                        !.formatted = bigIntToDecimal(fx.units, fx.scale)]
    /\ UNCHANGED <<clock, client, issued, call, run>>

NextDecimal == ParseDecimal \/ FormatUnits

SpecDecimal == InitDecimal /\ [][NextDecimal]_vars

\* The fractional digits at a scale: digit i of the given fraction where it
\* has one, a zero where it has none; digits past the scale are left out
FractionAtScale(fraction, scale) ==
    [i \in 1..scale |-> IF fraction # <<>> /\ i <= Len(fraction[1])
                        THEN fraction[1][i] ELSE "0"]

\* C12: parseDecimalToBigInt(value, scale) is the integer spelled by the
\* integer digits (0 when there are none) followed by exactly scale
\* fractional digits: the given ones, zeros where they run out, nothing past
\* the scale and no rounding; "366.14886400" at 8 is 36614886400,
\* "0.00000000" at 8 is 0 and "10.50" at 2 is 1050.
C12_ParsePadsAndTruncates ==
    fx.stage = "parsed" =>
        /\ fx.parsed.ok
        /\ fx.parsed.value =
              StripLeadingZeros((IF fx.whole = <<>> THEN <<"0">> ELSE fx.whole)
                                \o FractionAtScale(fx.fraction, fx.scale))
        /\ (fx.text = <<"3", "6", "6", ".", "1", "4", "8", "8", "6", "4", "0", "0">>
            /\ fx.scale = 8) =>
              fx.parsed.value = <<"3", "6", "6", "1", "4", "8", "8", "6", "4", "0", "0">>
        /\ (fx.text = <<"0", ".", "0", "0", "0", "0", "0", "0", "0", "0">> /\ fx.scale = 8) =>
              fx.parsed.value = <<"0">>
        /\ (fx.text = <<"1", "0", ".", "5", "0">> /\ fx.scale = 2) =>
              fx.parsed.value = <<"1", "0", "5", "0">>

\* A fraction longer than the scale whose first dropped digit is 9 was
\* parsed: the digits were discarded and the last kept digit did not go up.
C12_Witness ==
    /\ fx.stage = "parsed"
    /\ fx.whole = <<>>
    /\ fx.scale = 2
    /\ fx.fraction = << <<"0", "5", "9">> >>
    /\ fx.parsed = [ok |-> TRUE, value |-> <<"5">>]

\* C13 (as stated): for non-negative units and every scale,
\* bigIntToDecimal(units, scale) is the digits of the units left-padded with
\* zeros to at least scale + 1 digits, with a point before the last scale
\* digits and "0" before the point if no digit is left there;
\* 36614886400 at 8 is "366.14886400" and 1050 at 2 is "10.50".
C13_FormatSplitsAtScale ==
    fx.stage = "formatted" =>
        LET digits == IF Len(fx.units) >= fx.scale + 1 THEN fx.units
                      ELSE Repeat("0", fx.scale + 1 - Len(fx.units)) \o fx.units
            before == SubSeq(digits, 1, Len(digits) - fx.scale)
            last   == SubSeq(digits, Len(digits) - fx.scale + 1, Len(digits))
        IN  /\ fx.formatted = (IF before = <<>> THEN <<"0">> ELSE before) \o <<".">> \o last
            /\ (fx.units = <<"3", "6", "6", "1", "4", "8", "8", "6", "4", "0", "0">>
                /\ fx.scale = 8) =>
                  fx.formatted = <<"3", "6", "6", ".", "1", "4", "8", "8", "6", "4", "0", "0">>
            /\ (fx.units = <<"1", "0", "5", "0">> /\ fx.scale = 2) =>
                  fx.formatted = <<"1", "0", ".", "5", "0">>

(***************************************************************************)
(* Values.  An optional value is None or Some(v).  A JavaScript value held *)
(* in a payload is tagged with its type; its text is what String(value)    *)
(* gives, a sequence of tokens: single characters, or a word (a field      *)
(* name, an endpoint path, a credential) that the code never looks inside. *)
(***************************************************************************)
None == <<>>

Some(v) == <<v>>

Num(n) == [t |-> "number", v |-> NatToString(n)]

Str(s) == [t |-> "string", v |-> s]

Bool(b) == [t |-> "boolean", v |-> IF b THEN <<"true">> ELSE <<"false">>]

String(x) == x.v

\* Array.prototype.join(sep) on an array of strings
RECURSIVE join(_, _)
join(list, sep) ==
    IF list = <<>> THEN <<>>
    ELSE IF Len(list) = 1 THEN list[1]
    ELSE list[1] \o <<sep>> \o join(Tail(list), sep)

(***************************************************************************)
(* Objects are ordered lists of <<key, value>> entries: property order is  *)
(* insertion order (the keys here are never integer-like).                 *)
(***************************************************************************)
HasKey(obj, key) == \E i \in 1..Len(obj) : obj[i][1] = key

Get(obj, key) == obj[CHOOSE i \in 1..Len(obj) : obj[i][1] = key][2]

\* obj[key] = value: an existing property keeps its place, a new one goes last
Put(obj, key, value) ==
    IF HasKey(obj, key)
    THEN [i \in 1..Len(obj) |-> IF obj[i][1] = key THEN <<key, value>> ELSE obj[i]]
    ELSE Append(obj, <<key, value>>)

\* querystring.escape on one token: the unreserved characters pass, a space
\* (the one reserved character of the model's alphabet) is percent-encoded
qsEscapeToken(tok) == IF tok = " " THEN <<"%", "2", "0">> ELSE <<tok>>

RECURSIVE qsEscape(_)
qsEscape(str) ==
    IF str = <<>> THEN <<>> ELSE qsEscapeToken(Head(str)) \o qsEscape(Tail(str))

\* querystring.stringify's rendering of a property value: strings, numbers
\* and booleans by their text, anything else as the empty string
stringifyPrimitive(x) ==
    IF x.t \in {"string", "number", "boolean"} THEN String(x) ELSE <<>>

\* querystring.stringify(obj): key=value pairs joined with "&"
stringify(obj) ==
    join([i \in 1..Len(obj) |->
            qsEscape(<<obj[i][1]>>) \o <<"=">> \o qsEscape(stringifyPrimitive(obj[i][2]))],
         "&")

(***************************************************************************)
(* src/utils/crypto.ts.  SHA-256 and HMAC-SHA512 are held symbolically: a  *)
(* digest is the record of what went into it.                              *)
(***************************************************************************)
Throw(name, message) == [threw |-> TRUE, name |-> name, message |-> message]

Return(v) == [threw |-> FALSE, value |-> v]

sha256(prefix, data) == [alg |-> "sha256", prefix |-> prefix, data |-> data]

hmacSha512(key, urlPath, digest) ==
    [alg |-> "hmac-sha512", key |-> key, path |-> urlPath, digest |-> digest]

\* data is [type |-> "object", entries], [type |-> "string", text, json] where
\* json is what JSON.parse(text) gives, or a value of any other type
generateKrakenSignature(urlPath, data, secret) ==
    CASE data.type = "string" ->
            IF ~data.json.ok THEN Throw("SyntaxError", <<"JSON.parse">>)
            ELSE IF data.json.type = "null"
                 THEN Throw("TypeError", <<"null has no properties">>)
            ELSE IF ~HasKey(data.json.entries, "nonce")
                 THEN Throw("Error", <<"Nonce is required in data">>)
            ELSE Return(hmacSha512(secret, urlPath,
                        sha256(String(Get(data.json.entries, "nonce")), data.text)))
      [] data.type = "object" ->
            IF ~HasKey(data.entries, "nonce")
            THEN Throw("Error", <<"Nonce is required in data object">>)
            ELSE Return(hmacSha512(secret, urlPath,
                        sha256(String(Get(data.entries, "nonce")),
                               stringify(data.entries))))
      [] OTHER -> Throw("Error", <<"Invalid data type: expected string or object">>)

(***************************************************************************)
(* src/client/KrakenClient.ts                                              *)
(***************************************************************************)
DefaultBaseUrl == "https://api.kraken.com"

\* new KrakenClient(config) at the instant the clock reads timestamp
newKrakenClient(config, timestamp) ==
    IF config.apiKey = "" THEN Throw("Error", <<"API key is required">>)
    ELSE IF config.secret = "" THEN Throw("Error", <<"Secret key is required">>)
    ELSE Return([apiKey       |-> config.apiKey,
                 secret       |-> config.secret,
                 baseUrl      |-> IF config.baseUrl = None THEN DefaultBaseUrl
                                  ELSE config.baseUrl[1],
                 nonceCounter |-> timestamp])

\* generateNonce() that only counts up from the seed and never reads the clock
generateNonce_countsOnly(nonceCounter, timestamp) == nonceCounter + 1

\* generateNonce() taking the clock's value also when it equals the last nonce
generateNonce_reuseOnTie(nonceCounter, timestamp) ==
    IF timestamp >= nonceCounter THEN timestamp ELSE nonceCounter + 1

\* generateNonce(): the new value of nonceCounter, which is also returned
generateNonce(nonceCounter, timestamp) ==
    IF timestamp > nonceCounter THEN timestamp ELSE nonceCounter + 1

\* An optional string is truthy when it is present and not empty
Truthy(opt) == opt # None /\ opt[1] # <<>>

\* const { method = "POST", body = {}, otp } = options
methodOf(options) == IF options.method = None THEN "POST" ELSE options.method[1]

bodyOf(options) == IF options.body = None THEN <<>> ELSE options.body[1]

\* payload = { nonce, ...body }: a nonce in the caller's body wins
buildPayload_bodyNonceWins(body, nonce, otp) ==
    LET payload == IF HasKey(body, "nonce") THEN body ELSE Put(body, "nonce", Num(nonce))
    IN  IF Truthy(otp) THEN Put(payload, "otp", Str(otp[1])) ELSE payload

\* payload = { ...body, nonce }; if (otp) payload.otp = otp
buildPayload(body, nonce, otp) ==
    LET payload == Put(body, "nonce", Num(nonce))
    IN  IF Truthy(otp) THEN Put(payload, "otp", Str(otp[1])) ELSE payload

\* The body handed to fetch: the form data on a POST, none otherwise
fetchBody(method, formData) == IF method = "POST" THEN Some(formData) ELSE None

\* request(), from its entry to the fetch it awaits: the client object as the
\* call leaves it (self) and the call as it stands while the HTTP exchange is
\* in flight, or settled if signing threw
requestStart(self, timestamp, endpoint, options) ==
    LET method    == methodOf(options)
        nonce     == generateNonce(self.nonceCounter, timestamp)
        payload   == buildPayload(bodyOf(options), nonce, options.otp)
        signature == generateKrakenSignature(endpoint,
                        [type |-> "object", entries |-> payload], self.secret)
        formData  == stringify(payload)
    IN  [self     |-> [self EXCEPT !.nonceCounter = nonce],
         kind     |-> "request",
         endpoint |-> endpoint,
         options  |-> options,
         nonce    |-> Some(nonce),
         payload  |-> payload,
         phase    |-> IF signature.threw THEN "settled" ELSE "awaiting",
         fetch    |-> IF signature.threw THEN None
                      ELSE Some([url     |-> <<self.baseUrl, endpoint>>,
                                 query   |-> <<>>,
                                 method  |-> method,
                                 headers |-> << <<"API-Key", <<self.apiKey>> >>,
                                                <<"API-Sign", signature.value>>,
                                                <<"Content-Type",
                                                  <<"application/x-www-form-urlencoded">> >> >>,
                                 body    |-> fetchBody(method, formData)]),
         response |-> None,
         outcome  |-> IF signature.threw THEN Some(signature) ELSE None]

\* publicRequest() drawing a nonce as request() does
publicRequestStart_takesNonce(self, endpoint, params) ==
    [self     |-> [self EXCEPT !.nonceCounter = @ + 1],
     kind     |-> "publicRequest",
     endpoint |-> endpoint,
     options  |-> [params |-> params],
     nonce    |-> None,
     payload  |-> <<>>,
     phase    |-> "awaiting",
     fetch    |-> None,
     response |-> None,
     outcome  |-> None]

\* publicRequest(), from its entry to the fetch it awaits
publicRequestStart(self, endpoint, params) ==
    LET entries == IF params = None THEN <<>> ELSE params[1]
    IN  [self     |-> self,
         kind     |-> "publicRequest",
         endpoint |-> endpoint,
         options  |-> [params |-> params],
         nonce    |-> None,
         payload  |-> <<>>,
         phase    |-> "awaiting",
         fetch    |-> Some([url     |-> <<self.baseUrl, endpoint>>,
                            query   |-> [i \in 1..Len(entries) |->
                                            <<entries[i][1], String(entries[i][2])>>],
                            method  |-> "GET",
                            headers |-> << <<"Content-Type", <<"application/json">> >> >>,
                            body    |-> None]),
         response |-> None,
         outcome  |-> None]

\* response.ok taken for any status that is not a redirect or a client error
ok_anyButClientError(response) == response.status \notin 300..499

\* response.ok
ok(response) == response.status \in 200..299

\* request() returning the envelope's result whenever there is one
requestFinish_resultBeforeErrors(response) ==
    IF response.rejected THEN Throw("TypeError", <<"fetch failed">>)
    ELSE IF ~response.json.ok THEN Throw("SyntaxError", <<"response.json">>)
    ELSE IF response.json.type = "null"
    THEN Throw("TypeError", <<"null has no properties">>)
    ELSE IF response.json.result # None THEN Return(response.json.result)
    ELSE Throw("Error", <<"Kraken API error: ">>)

\* request() treating a response without a result as a failure
requestFinish_requiresResult(response) ==
    IF response.rejected THEN Throw("TypeError", <<"fetch failed">>)
    ELSE IF ~ok(response)
    THEN Throw("Error", <<"Kraken API HTTP error: ">> \o NatToString(response.status)
                        \o <<" ", response.statusText, " - ", response.text>>)
    ELSE IF ~response.json.ok THEN Throw("SyntaxError", <<"response.json">>)
    ELSE IF response.json.type = "null"
    THEN Throw("TypeError", <<"null has no properties">>)
    ELSE IF response.json.error # None /\ Len(response.json.error[1]) > 0
    THEN Throw("Error", <<"Kraken API error: ">> \o join(response.json.error[1], ", "))
    ELSE IF response.json.result = None
    THEN Throw("Error", <<"Kraken API error: no result">>)
    ELSE Return(response.json.result)

\* What the rest of request() makes of the response: a rejected fetch
\* propagates; a non-2xx status throws with the status and the body text;
\* otherwise the body is parsed as the envelope
requestFinish(response) ==
    IF response.rejected THEN Throw("TypeError", <<"fetch failed">>)
    ELSE IF ~ok(response)
    THEN Throw("Error", <<"Kraken API HTTP error: ">> \o NatToString(response.status)
                        \o <<" ", response.statusText, " - ", response.text>>)
    ELSE IF ~response.json.ok THEN Throw("SyntaxError", <<"response.json">>)
    ELSE IF response.json.type = "null"
    THEN Throw("TypeError", <<"null has no properties">>)
    ELSE IF response.json.error # None /\ Len(response.json.error[1]) > 0
    THEN Throw("Error", <<"Kraken API error: ">> \o join(response.json.error[1], ", "))
    ELSE Return(response.json.result)

\* The same of publicRequest()
publicRequestFinish(response) ==
    IF response.rejected THEN Throw("TypeError", <<"fetch failed">>)
    ELSE IF ~ok(response)
    THEN Throw("Error", <<"Kraken API HTTP error: ">> \o NatToString(response.status)
                        \o <<" ", response.statusText, " - ", response.text>>)
    ELSE IF ~response.json.ok THEN Throw("SyntaxError", <<"response.json">>)
    ELSE IF response.json.type = "null"
    THEN Throw("TypeError", <<"null has no properties">>)
    ELSE IF response.json.error # None /\ Len(response.json.error[1]) > 0
    THEN Throw("Error", <<"Kraken API error: ">> \o join(response.json.error[1], ", "))
    ELSE Return(response.json.result)

(***************************************************************************)
(* The exchange, as the client sees it: fetch rejects (no HTTP response),  *)
(* or resolves with a status and a body.  A body is its raw text and what  *)
(* JSON.parse makes of it.                                                 *)
(***************************************************************************)
NotJson == [ok |-> FALSE]

JsonNull == [ok |-> TRUE, type |-> "null"]

Envelope(error, result) ==
    [ok |-> TRUE, type |-> "object", error |-> error, result |-> result]

HttpStatuses ==
    { [status |-> 200, statusText |-> "OK"],
      [status |-> 201, statusText |-> "Created"],
      [status |-> 500, statusText |-> "Internal Server Error"] }

Rejected == [rejected |-> TRUE]

Responses(bodies) ==
    {Rejected} \cup
    { [rejected |-> FALSE, status |-> h.status, statusText |-> h.statusText,
       text |-> b.text, json |-> b.json] : h \in HttpStatuses, b \in bodies }

EInvalidArgs == <<"EGeneral:Invalid arguments">>

EInvalidNonce == <<"EAPI:Invalid nonce">>

ClientBodies ==
    { [text |-> "{error:[],result:R}", json |-> Envelope(Some(<<>>), Some("R"))],
      [text |-> "{error:[E1]}", json |-> Envelope(Some(<<EInvalidArgs>>), None)],
      [text |-> "{error:[E2,E1],result:R}",
       json |-> Envelope(Some(<<EInvalidNonce, EInvalidArgs>>), Some("R"))],
      [text |-> "{error:[]}", json |-> Envelope(Some(<<>>), None)],
      [text |-> "{result:R}", json |-> Envelope(None, Some("R"))],
      [text |-> "null", json |-> JsonNull],
      [text |-> "<html>Bad Gateway</html>", json |-> NotJson] }

(***************************************************************************)
(* The signer on its own: the data argument is drawn from objects, from    *)
(* strings (the JSON text of an object, the form-encoded text of an        *)
(* object, the JSON texts null and 123) and from values of other types.    *)
(***************************************************************************)
SignPayloads ==
    { <<>>, << <<"asset", Str(<<"USD">>)>> >> }
    \cup { << <<"nonce", Num(n)>> >> : n \in 0..MaxClock }
    \cup { << <<"asset", Str(<<"USD">>)>>, <<"nonce", Num(n)>> >> : n \in 0..MaxClock }

\* JSON.stringify(obj) of an object whose values are strings and numbers
JsonText(obj) ==
    <<"{">>
    \o join([i \in 1..Len(obj) |->
               <<"\"", obj[i][1], "\"", ":">>
               \o (IF obj[i][2].t = "string" THEN <<"\"">> \o String(obj[i][2]) \o <<"\"">>
                   ELSE String(obj[i][2]))], ",")
    \o <<"}">>

SignData ==
    { [type |-> "object", entries |-> e] : e \in SignPayloads }
    \cup { [type |-> "string", text |-> JsonText(e),
            json |-> [ok |-> TRUE, type |-> "object", entries |-> e]] : e \in SignPayloads }
    \cup { [type |-> "string", text |-> stringify(e), json |-> NotJson] : e \in SignPayloads }
    \cup { [type |-> "string", text |-> <<"null">>, json |-> JsonNull],
           [type |-> "string", text |-> <<"1", "2", "3">>,
            json |-> [ok |-> TRUE, type |-> "number", entries |-> <<>>]] }
    \cup { [type |-> t] : t \in {"null", "undefined", "number", "boolean"} }

InitSign ==
    /\ fx \in [stage : {"input"}, urlPath : {"/0/private/Balance", "/0/private/Withdraw"},
               data : SignData, secret : {"SECRET", "SECRET2"}, signed : {None}]
    /\ clock = 0
    /\ client = [c \in {} |-> 0]
    /\ issued = [c \in {} |-> <<>>]
    /\ call = [c \in {} |-> Idle]
    /\ run = Idle

Sign ==
    /\ fx.stage = "input"
    /\ fx' = [fx EXCEPT !.stage = "signed",
                        !.signed = Some(generateKrakenSignature(fx.urlPath, fx.data, fx.secret))]
    /\ UNCHANGED <<clock, client, issued, call, run>>

NextSign == Sign

SpecSign == InitSign /\ [][NextSign]_vars

\* The data names a nonce field: an object by a property, a string by a
\* field of that name in its text
CarriesNonce(data) ==
    CASE data.type = "object" -> HasKey(data.entries, "nonce")
      [] data.type = "string" -> \E i \in 1..Len(data.text) : data.text[i] = "nonce"
      [] OTHER                -> FALSE

\* C14 (as stated): generateKrakenSignature throws, returning no signature,
\* exactly when the data is neither a string nor an object or carries no
\* nonce field; every string or object that carries a nonce gets a signature.
C14_SignatureUnlessNoNonceOrWrongType ==
    fx.stage = "signed" =>
        (fx.signed[1].threw <=>
            (fx.data.type \notin {"string", "object"} \/ ~CarriesNonce(fx.data)))

(***************************************************************************)
(* A caller of one client: any sequence of request() and publicRequest()   *)
(* calls, each awaited before the next, under an arbitrary clock.          *)
(***************************************************************************)
NoCall == [phase |-> "idle"]

GoodConfig == [apiKey |-> "KEY", secret |-> "SECRET", baseUrl |-> None]

ClientOptions ==
    [method : {None, Some("POST"), Some("GET")},
     body   : {None,
               Some(<< <<"asset", Str(<<"U", " ", "S">>)>> >>),
               Some(<< <<"nonce", Num(0)>>, <<"validate", Bool(TRUE)>> >>)},
     otp    : {None, Some(<<>>), Some(<<"123456">>)}]

PublicParams == {None, Some(<< <<"pair", Str(<<"USDCUSD">>)>>, <<"count", Num(2)>> >>)}

InitClient ==
    /\ fx = Idle
    /\ clock \in 0..MaxClock
    /\ client = [c \in {"c1"} |-> newKrakenClient(GoodConfig, clock).value]
    /\ issued = [c \in {"c1"} |-> <<>>]
    /\ call = [c \in {"c1"} |-> NoCall]
    /\ run = Idle

\* The wall clock moves, forward or backward
ClockAdvance ==
    /\ \E t \in 0..MaxClock : t # clock /\ clock' = t
    /\ UNCHANGED <<fx, client, issued, call, run>>

\* Clients drawing their nonces from one counter: a call started on one
\* client moves the last-issued value of every client
Started_sharedCounter(c, self, started) ==
    /\ client' = [x \in DOMAIN client \cup {c} |->
                    IF x = c THEN started.self
                    ELSE [client[x] EXCEPT !.nonceCounter = started.self.nonceCounter]]
    /\ issued' = [issued EXCEPT ![c] = IF started.nonce = None THEN @
                                       ELSE Append(@, started.nonce[1])]
    /\ call' = [call EXCEPT ![c] = [k \in DOMAIN started \ {"self"} |-> started[k]]]

\* The client object and the call once request()/publicRequest() has started
\* on the client object self
Started(c, self, started) ==
    /\ client' = [x \in DOMAIN client \cup {c} |->
                    IF x = c THEN started.self ELSE client[x]]
    /\ issued' = [issued EXCEPT ![c] = IF started.nonce = None THEN @
                                       ELSE Append(@, started.nonce[1])]
    /\ call' = [call EXCEPT ![c] = [k \in DOMAIN started \ {"self"} |-> started[k]]]

Request(c, endpoint, options) ==
    /\ call[c].phase # "awaiting"
    /\ Len(issued[c]) < MaxCalls
    /\ Started(c, client[c], requestStart(client[c], clock, endpoint, options))
    /\ UNCHANGED <<fx, clock, run>>

\* request() giving the nonce back when the call fails
RequestSettle_rollsBackOnFailure(c, response) ==
    /\ call[c].phase = "awaiting"
    /\ call[c].kind = "request"
    /\ call' = [call EXCEPT ![c].phase = "settled",
                            ![c].response = Some(response),
                            ![c].outcome = Some(requestFinish(response))]
    /\ client' = [client EXCEPT ![c].nonceCounter =
                     IF requestFinish(response).threw THEN @ - 1 ELSE @]
    /\ UNCHANGED <<fx, clock, issued, run>>

RequestSettle(c, response) ==
    /\ call[c].phase = "awaiting"
    /\ call[c].kind = "request"
    /\ call' = [call EXCEPT ![c].phase = "settled",
                            ![c].response = Some(response),
                            ![c].outcome = Some(requestFinish(response))]
    /\ UNCHANGED <<fx, clock, client, issued, run>>

PublicRequest(c, endpoint, params) ==
    /\ call[c].phase # "awaiting"
    /\ Started(c, client[c], publicRequestStart(client[c], endpoint, params))
    /\ UNCHANGED <<fx, clock, run>>

PublicRequestSettle(c, response) ==
    /\ call[c].phase = "awaiting"
    /\ call[c].kind = "publicRequest"
    /\ call' = [call EXCEPT ![c].phase = "settled",
                            ![c].response = Some(response),
                            ![c].outcome = Some(publicRequestFinish(response))]
    /\ UNCHANGED <<fx, clock, client, issued, run>>

NextClient ==
    \/ ClockAdvance
    \/ \E c \in DOMAIN client, options \in ClientOptions :
          Request(c, "/0/private/Balance", options)
    \/ \E c \in DOMAIN client, response \in Responses(ClientBodies) :
          RequestSettle(c, response)
    \/ \E c \in DOMAIN client, params \in PublicParams :
          PublicRequest(c, "/0/public/Ticker", params)
    \/ \E c \in DOMAIN client, response \in Responses(ClientBodies) :
          PublicRequestSettle(c, response)

SpecClient == InitClient /\ [][NextClient]_vars

(***************************************************************************)
(* Claims about the client.                                                *)
(***************************************************************************)
Settled(c, kind) == call[c].phase = "settled" /\ call[c].kind = kind

Responded(c) == call[c].phase = "settled" /\ call[c].response # None

TheResponse(c) == call[c].response[1]

TheOutcome(c) == call[c].outcome[1]

TheFetch(c) == call[c].fetch[1]

Is2xx(response) == ~response.rejected /\ response.status >= 200 /\ response.status <= 299

HasErrors(response) ==
    /\ Is2xx(response)
    /\ response.json.ok
    /\ response.json.type = "object"
    /\ response.json.error # None
    /\ response.json.error[1] # <<>>

\* C1: the nonces one client's successive generateNonce calls return are
\* strictly increasing, whatever the clock reads between the calls.
C1_NoncesStrictlyIncreasing ==
    \A c \in DOMAIN issued :
        \A i, j \in 1..Len(issued[c]) : i < j => issued[c][i] < issued[c][j]

\* Three nonces of one client: the second taken from a clock that had jumped
\* ahead, the third while the clock had not passed the second.
C1_Witness ==
    \E c \in DOMAIN issued :
        /\ Len(issued[c]) >= 3
        /\ issued[c][2] > issued[c][1] + 1
        /\ issued[c][3] = issued[c][2] + 1
        /\ clock < issued[c][2]

\* C3: a 2xx response whose envelope lists errors makes request() and
\* publicRequest() throw the API error with the joined error strings; the
\* envelope's result is never returned, even when it is present.
C3_ErrorsMaskResult ==
    \A c \in DOMAIN call :
        (Responded(c) /\ HasErrors(TheResponse(c))) =>
            /\ TheOutcome(c).threw
            /\ TheOutcome(c).name = "Error"
            /\ TheOutcome(c).message =
                  <<"Kraken API error: ">> \o join(TheResponse(c).json.error[1], ", ")

\* A private request, not the client's first, has met a 2xx envelope holding
\* two errors and a result.
C3_Witness ==
    \E c \in DOMAIN call :
        /\ Responded(c)
        /\ HasErrors(TheResponse(c))
        /\ Len(TheResponse(c).json.error[1]) = 2
        /\ TheResponse(c).json.result # None
        /\ TheOutcome(c).threw
        /\ call[c].kind = "request"
        /\ Len(issued[c]) >= 2

\* C4: a non-2xx status makes request() and publicRequest() throw an error
\* that carries the status code and the raw body text, whatever the body
\* holds; nothing is returned.
C4_HttpErrorCarriesStatusAndBody ==
    \A c \in DOMAIN call :
        (Responded(c) /\ ~TheResponse(c).rejected /\ ~Is2xx(TheResponse(c))) =>
            /\ TheOutcome(c).threw
            /\ TheOutcome(c).name = "Error"
            /\ Head(TheOutcome(c).message) = "Kraken API HTTP error: "
            /\ LET digits == NatToString(TheResponse(c).status)
               IN  SubSeq(TheOutcome(c).message, 2, 1 + Len(digits)) = digits
            /\ TheOutcome(c).message[Len(TheOutcome(c).message)] = TheResponse(c).text

\* A status 500 whose body is a well-formed envelope with a result.
C4_Witness ==
    \E c \in DOMAIN call :
        /\ Responded(c)
        /\ TheResponse(c) # Rejected
        /\ TheResponse(c).status = 500
        /\ TheResponse(c).json.ok
        /\ TheResponse(c).json.type = "object"
        /\ TheResponse(c).json.error = Some(<<>>)
        /\ TheResponse(c).json.result # None
        /\ TheOutcome(c).threw

\* C9 (as stated): for every private request, whatever the method, body and
\* otp, the serialized payload that is signed (the SHA-256 input after the
\* nonce prefix) is the body sent in the HTTP request.
C9_SignedPayloadIsBodySent ==
    \A c \in DOMAIN call :
        (call[c].phase # "idle" /\ call[c].kind = "request" /\ call[c].fetch # None) =>
            LET signature == TheFetch(c).headers[2][2]
            IN  TheFetch(c).body = Some(signature.digest.data)

\* C10: a publicRequest call, from its start to its end, whether it returns
\* or throws, leaves the client's last-issued nonce as it was and takes no
\* nonce.
C10_PublicRequestKeepsNonce ==
    [][\A c \in DOMAIN call :
          (call'[c] # call[c] /\ call'[c].phase # "idle" /\ call'[c].kind = "publicRequest")
              => (client'[c] = client[c] /\ issued'[c] = issued[c])]_vars

\* A publicRequest that threw, made between two private requests.
C10_Witness ==
    \E c \in DOMAIN call :
        /\ Settled(c, "publicRequest")
        /\ TheOutcome(c).threw
        /\ issued[c] # <<>>
        /\ Len(issued[c]) < MaxCalls
        /\ call[c].nonce = None

\* C17: a call of generateNonce reads the clock once; the new last-issued
\* value is the clock's value when that is strictly greater than the last
\* one and the last one plus 1 otherwise, that is max(now, last + 1); it is
\* the value returned, and it is never below the clock reading.
C17_NonceIsMaxOfClockAndSuccessor ==
    [][\A c \in DOMAIN issued :
          issued'[c] # issued[c] =>
              LET last  == client[c].nonceCounter
                  nonce == issued'[c][Len(issued'[c])]
              IN  /\ issued'[c] = Append(issued[c], nonce)
                  /\ client'[c].nonceCounter = nonce
                  /\ clock > last => nonce = clock
                  /\ clock <= last => nonce = last + 1
                  /\ nonce = Max(clock, last + 1)
                  /\ nonce >= clock
      ]_vars

\* A request in flight whose nonce, the client's second, is the clock's
\* value: the clock had jumped past the first nonce.
C17_Witness ==
    \E c \in DOMAIN issued :
        /\ Len(issued[c]) = 2
        /\ issued[c][2] = clock
        /\ issued[c][2] > issued[c][1] + 1
        /\ client[c].nonceCounter = clock
        /\ call[c].phase = "awaiting"

(***************************************************************************)
(* Numbers.  A JavaScript number is NaN or an exact decimal, mant / 10^exp.*)
(* The configuration values the model draws are ones for which the         *)
(* double-precision product with 10000 is the exact product, or is far     *)
(* from any integer.                                                       *)
(***************************************************************************)
NaN == [nan |-> TRUE]

Dec(mant, exp) == [nan |-> FALSE, mant |-> mant, exp |-> exp]

RECURSIVE Pow10(_)
Pow10(n) == IF n = 0 THEN 1 ELSE 10 * Pow10(n - 1)

RECURSIVE StringToNat(_)
StringToNat(ds) ==
    IF ds = <<>> THEN 0
    ELSE 10 * StringToNat(SubSeq(ds, 1, Len(ds) - 1)) + DigitValue(ds[Len(ds)])

\* Number(string): an optionally signed decimal literal, the empty string
\* (0), or NaN
Number(str) ==
    IF str = <<>> THEN Dec(0, 0)
    ELSE LET signed == str[1] \in {"-", "+"}
             body   == IF signed THEN Tail(str) ELSE str
             parts  == split(body, ".")
             frac   == IF Len(parts) = 2 THEN parts[2] ELSE <<>>
         IN  IF \/ Len(parts) > 2
                \/ ~AllDigits(parts[1])
                \/ ~AllDigits(frac)
                \/ parts[1] \o frac = <<>>
             THEN NaN
             ELSE Dec((IF str[1] = "-" THEN -1 ELSE 1) * StringToNat(parts[1] \o frac),
                      Len(frac))

\* x * k for an integer k
Times(x, k) == IF x.nan THEN NaN ELSE Dec(x.mant * k, x.exp)

\* x < 0 (false of NaN)
IsBelowZero(x) == ~x.nan /\ x.mant < 0

RangeError == [ok |-> FALSE, error |-> "RangeError"]

\* BigInt(number): a RangeError unless the number is an integer
BigIntFromNumber(x) ==
    IF x.nan \/ x.mant % Pow10(x.exp) # 0 THEN RangeError
    ELSE LET n == x.mant \div Pow10(x.exp)
         IN  [ok |-> TRUE,
              value |-> IF n < 0 THEN <<"-">> \o NatToString(0 - n) ELSE NatToString(n)]

(***************************************************************************)
(* src/config.ts.  An environment variable that is not set reads as the    *)
(* empty string here: the code tests both with ! and ||.                   *)
(***************************************************************************)
loadConfig(env) ==
    IF env.KRAKEN_PUBLIC_KEY = ""
    THEN Throw("Error", <<"KRAKEN_PUBLIC_KEY environment variable is not set. ">>)
    ELSE IF env.KRAKEN_SECRET_KEY = ""
    THEN Throw("Error", <<"KRAKEN_SECRET_KEY environment variable is not set. ">>)
    ELSE IF env.USD_WITHDRAWAL_KEY = ""
    THEN Throw("Error", <<"USD_WITHDRAWAL_KEY environment variable is not set. ">>)
    ELSE Return([kraken |-> [apiKey  |-> env.KRAKEN_PUBLIC_KEY,
                             secret  |-> env.KRAKEN_SECRET_KEY,
                             baseUrl |-> Some(IF env.KRAKEN_API_URL = ""
                                              THEN DefaultBaseUrl
                                              ELSE env.KRAKEN_API_URL)],
                 minimumWithdrawalUSD |->
                     Number(IF env.MINIMUM_WITHDRAWAL_USD = <<>>
                            THEN <<"1", "0">>
                            ELSE env.MINIMUM_WITHDRAWAL_USD),
                 usdWithdrawalKey |-> env.USD_WITHDRAWAL_KEY])

validateConfig(config) ==
    IF config.kraken.apiKey = "" \/ config.kraken.secret = ""
    THEN Throw("Error", <<"Kraken API credentials are required">>)
    ELSE IF IsBelowZero(config.minimumWithdrawalUSD)
    THEN Throw("Error", <<"Minimum withdrawal amount must be positive">>)
    ELSE IF config.usdWithdrawalKey = ""
    THEN Throw("Error", <<"USD withdrawal key is required">>)
    ELSE Return(TRUE)

(***************************************************************************)
(* src/api/balance.ts, src/api/trading.ts, src/api/withdrawal.ts: each     *)
(* wrapper is the endpoint and options it hands to client.request.         *)
(***************************************************************************)
NoOptions == [method |-> None, body |-> None, otp |-> None]

ApiCall(endpoint, body) ==
    [endpoint |-> endpoint, options |-> [method |-> None, body |-> Some(body), otp |-> None]]

getBalance == [endpoint |-> "/0/private/Balance", options |-> NoOptions]

DefaultBalance == <<"0", ".", "0", "0", "0", "0", "0", "0", "0", "0">>

\* balance[asset] ?? "0.00000000", on the result getBalance resolved with
getAssetBalance(result, asset) ==
    IF result = None THEN Throw("TypeError", <<"undefined is not an object">>)
    ELSE IF HasKey(result[1], asset) THEN Return(String(Get(result[1], asset)))
    ELSE Return(DefaultBalance)

placeOrder(params) == ApiCall("/0/private/AddOrder", params)

\* { type, ordertype, pair, volume, ...options }
RECURSIVE Spread(_, _)
Spread(obj, more) ==
    IF more = <<>> THEN obj ELSE Spread(Put(obj, more[1][1], more[1][2]), Tail(more))

sellUSDCToUSD(volume, options) ==
    placeOrder(Spread(<< <<"type", Str(<<"sell">>)>>,
                         <<"ordertype", Str(<<"market">>)>>,
                         <<"pair", Str(<<"USDCUSD">>)>>,
                         <<"volume", Str(volume)>> >>, options))

withdraw(asset, key, amount, options) ==
    ApiCall("/0/private/Withdraw",
            Spread(<< <<"asset", Str(<<asset>>)>>,
                      <<"key", Str(<<key>>)>>,
                      <<"amount", Str(amount)>> >>, options))

withdrawToMercury(amount, options) == withdraw("USD", "Mercury", amount, options)

(***************************************************************************)
(* index.ts: main().  Each action is one synchronous stretch of main(),    *)
(* from the point it resumes to the next await.                            *)
(***************************************************************************)
\* BigInt(config.minimumWithdrawalUSD * 10_000)
minimumWithdrawal(config) == BigIntFromNumber(Times(config.minimumWithdrawalUSD, 10000))

\* usdcBalanceBigInt >= 0n
shouldSell_nonNegative(usdcBalanceBigInt) == ~BigIntLess(usdcBalanceBigInt, Zero)

\* usdcBalanceBigInt > 0n
shouldSell(usdcBalanceBigInt) == BigIntLess(Zero, usdcBalanceBigInt)

\* usdBalanceBigInt > minimumWithdrawal
shouldWithdraw_strict(usdBalanceBigInt, minimum) == BigIntLess(minimum, usdBalanceBigInt)

\* usdBalanceBigInt >= minimumWithdrawal
shouldWithdraw(usdBalanceBigInt, minimum) == ~BigIntLess(usdBalanceBigInt, minimum)

\* A catch that reports the error and lets the process end normally
catch_logsOnly(r, error) == [r EXCEPT !.pc = "exited", !.error = Some(error), !.exit = Some(0)]

\* catch (error) { console.error(...); process.exit(1); }
catch(r, error) == [r EXCEPT !.pc = "exited", !.error = Some(error), !.exit = Some(1)]

\* main() returns: the process ends with status 0
completed(r) == [r EXCEPT !.pc = "done", !.exit = Some(0)]

\* What main() holds once the order request has resolved with result
afterOrder(result) ==
    IF result = None THEN Throw("TypeError", <<"undefined is not an object">>)
    ELSE IF result[1].txid # None /\ Len(result[1].txid[1]) > 0 /\ result[1].descr = None
    THEN Throw("TypeError", <<"undefined is not an object">>)
    ELSE Return(TRUE)

\* What main() holds once the withdrawal request has resolved with result
afterWithdrawal(result) ==
    IF result = None THEN Throw("TypeError", <<"undefined is not an object">>)
    ELSE Return(result[1].refid)

Env ==
    [KRAKEN_PUBLIC_KEY      : {"", "KEY"},
     KRAKEN_SECRET_KEY      : {"", "SECRET"},
     USD_WITHDRAWAL_KEY     : {"", "Mercury", "MyBank"},
     KRAKEN_API_URL         : {""},
     MINIMUM_WITHDRAWAL_USD : {<<>>, <<"1", "0">>, <<"0">>, <<"1", "0", ".", "5">>,
                               <<"-", "1">>, <<"a", "b", "c">>,
                               <<"0", ".", "0", "0", "0", "0", "1">>}]

BalanceResults ==
    { << <<"USDC", Str(<<"0", ".", "0", "0", "0", "0", "0", "0", "0", "0">>)>>, <<"ZUSD", Str(<<"5", ".", "0", "0", "0", "0">>)>> >>,
      << <<"USDC", Str(<<"1", "0", "0", ".", "0", "0", "0", "0", "0", "0", "0", "0">>)>>, <<"ZUSD", Str(<<"5", "0", ".", "0", "0", "0", "0">>)>> >>,
      << <<"ZUSD", Str(<<"1", "0", ".", "0", "0", "0", "0">>)>> >>,
      << <<"USDC", Str(<<"0", ".", "0", "0", "0", "0", "0", "0", "0", "1">>)>> >>,
      << <<"USDC", Str(<<"1", "x">>)>>, <<"ZUSD", Str(<<"a", "b", "c">>)>> >>,
      << <<"USDC", Str(<<"-", "1", ".", "5">>)>>, <<"ZUSD", Str(<<"9", ".", "9", "9", "9", "9">>)>> >>,
      << <<"USDC", Str(<<"0", ".", "0", "0", "0", "0", "0", "0", "0", "0", "9">>)>>, <<"ZUSD", Str(<<"1", "0", ".", "5", "0", "0", "0", "9">>)>> >> }

OrderResults ==
    { [descr |-> Some([order |-> "sell USDCUSD @ market"]), txid |-> Some(<<"TX1">>)],
      [descr |-> Some([order |-> "sell USDCUSD @ market"]), txid |-> None],
      [descr |-> None, txid |-> Some(<<"TX1">>)] }

WithdrawResults == { [refid |-> "REF1"] }

MainBodies(endpoint) ==
    { [text |-> "json", json |-> Envelope(Some(<<>>), Some(r))] :
        r \in CASE endpoint = "/0/private/Balance"  -> BalanceResults
                [] endpoint = "/0/private/AddOrder" -> OrderResults
                [] OTHER                            -> WithdrawResults }
    \cup { [text |-> "{error:[E1]}", json |-> Envelope(Some(<<EInvalidArgs>>), None)],
           [text |-> "{error:[]}", json |-> Envelope(Some(<<>>), None)] }

InitMain ==
    /\ fx = Idle
    /\ clock = 0
    /\ client = [c \in {} |-> 0]
    /\ issued = [c \in {"c1"} |-> <<>>]
    /\ call = [c \in {"c1"} |-> NoCall]
    /\ run \in [pc : {"start"}, env : Env, config : {None}, usdcBalance : {None},
                usdBalance : {None}, sent : {<<>>}, delays : {0}, error : {None},
                exit : {None}]

\* main() calls client.request through an API wrapper and awaits it; r is
\* run with the locals main() has assigned in this stretch
MainRequest(r, self, timestamp, apiCall, awaiting) ==
    LET started == requestStart(self, timestamp, apiCall.endpoint, apiCall.options)
    IN  /\ Started("c1", self, started)
        /\ run' = IF started.phase = "settled" THEN catch(r, started.outcome[1])
                  ELSE [r EXCEPT !.pc = awaiting,
                                 !.sent = Append(@, [endpoint |-> apiCall.endpoint,
                                                     payload  |-> started.payload])]

\* main() ends this stretch without a request
MainEnds(r) ==
    /\ run' = r
    /\ UNCHANGED <<client, issued, call>>

\* main() building the client and sending the first balance query from the
\* raw environment, the configuration being looked at afterwards
Main_start_clientBeforeConfig ==
    /\ run.pc = "start"
    /\ LET made   == newKrakenClient([apiKey  |-> run.env.KRAKEN_PUBLIC_KEY,
                                      secret  |-> run.env.KRAKEN_SECRET_KEY,
                                      baseUrl |-> None], clock)
           config == [kraken |-> [apiKey  |-> run.env.KRAKEN_PUBLIC_KEY,
                                  secret  |-> run.env.KRAKEN_SECRET_KEY,
                                  baseUrl |-> Some(DefaultBaseUrl)],
                      minimumWithdrawalUSD |-> Number(<<"1", "0">>),
                      usdWithdrawalKey |-> run.env.USD_WITHDRAWAL_KEY]
       IN  IF made.threw THEN MainEnds(catch(run, made))
           ELSE MainRequest([run EXCEPT !.config = Some(config)],
                            made.value, clock, getBalance, "awaitBalance1")
    /\ UNCHANGED <<fx, clock>>

\* Lines 22-33: configuration, the client, the first balance query
Main_start ==
    /\ run.pc = "start"
    /\ LET config == loadConfig(run.env)
       IN  IF config.threw THEN MainEnds(catch(run, config))
           ELSE LET valid == validateConfig(config.value)
                    made  == newKrakenClient(config.value.kraken, clock)
                IN  IF valid.threw THEN MainEnds(catch(run, valid))
                    ELSE IF made.threw THEN MainEnds(catch(run, made))
                    ELSE MainRequest([run EXCEPT !.config = Some(config.value)],
                                     made.value, clock, getBalance, "awaitBalance1")
    /\ UNCHANGED <<fx, clock>>

\* The exchange answers the request main() awaits
Main_response ==
    /\ run.pc \in {"awaitBalance1", "awaitSell", "awaitBalance2", "awaitWithdraw"}
    /\ \E response \in Responses(MainBodies(call["c1"].endpoint)) :
          RequestSettle("c1", response)

\* main() setting the timer only after a sell order: with nothing to sell
\* it goes straight to the second balance query
Main_afterBalance1_delayOnlyAfterSell ==
    /\ run.pc = "awaitBalance1"
    /\ call["c1"].phase = "settled"
    /\ LET outcome     == call["c1"].outcome[1]
           usdcBalance == getAssetBalance(outcome.value, "USDC")
           r           == [run EXCEPT !.usdcBalance = Some(usdcBalance.value)]
           bigInt      == parseDecimalToBigInt(usdcBalance.value, 8)
       IN  IF outcome.threw THEN MainEnds(catch(run, outcome))
           ELSE IF usdcBalance.threw THEN MainEnds(catch(run, usdcBalance))
           ELSE IF ~bigInt.ok THEN MainEnds(catch(r, Throw(bigInt.error, <<"BigInt">>)))
           ELSE IF shouldSell(bigInt.value)
           THEN MainRequest(r, client["c1"], clock,
                            sellUSDCToUSD(usdcBalance.value, <<>>), "awaitSell")
           ELSE MainRequest(r, client["c1"], clock, getBalance, "awaitBalance2")
    /\ UNCHANGED <<fx, clock>>

\* Lines 33-52: the sell-asset balance, the sell order or the timer
Main_afterBalance1 ==
    /\ run.pc = "awaitBalance1"
    /\ call["c1"].phase = "settled"
    /\ LET outcome     == call["c1"].outcome[1]
           usdcBalance == getAssetBalance(outcome.value, "USDC")
           r           == [run EXCEPT !.usdcBalance = Some(usdcBalance.value)]
           bigInt      == parseDecimalToBigInt(usdcBalance.value, 8)
       IN  IF outcome.threw THEN MainEnds(catch(run, outcome))
           ELSE IF usdcBalance.threw THEN MainEnds(catch(run, usdcBalance))
           ELSE IF ~bigInt.ok THEN MainEnds(catch(r, Throw(bigInt.error, <<"BigInt">>)))
           ELSE IF shouldSell(bigInt.value)
           THEN MainRequest(r, client["c1"], clock,
                            sellUSDCToUSD(usdcBalance.value, <<>>), "awaitSell")
           ELSE MainEnds([r EXCEPT !.pc = "delay"])
    /\ UNCHANGED <<fx, clock>>

\* main() sending the sell order a second time when the first attempt failed
Main_afterSell_retriesOnce ==
    /\ run.pc = "awaitSell"
    /\ call["c1"].phase = "settled"
    /\ LET outcome == call["c1"].outcome[1]
           logged  == afterOrder(outcome.value)
       IN  IF outcome.threw /\ Len(run.sent) < 3
           THEN MainRequest(run, client["c1"], clock,
                            sellUSDCToUSD(run.usdcBalance[1], <<>>), "awaitSell")
           ELSE IF outcome.threw THEN MainEnds(catch(run, outcome))
           ELSE IF logged.threw THEN MainEnds(catch(run, logged))
           ELSE MainEnds([run EXCEPT !.pc = "delay"])
    /\ UNCHANGED <<fx, clock>>

\* Lines 40-52: the order's result, then the timer
Main_afterSell ==
    /\ run.pc = "awaitSell"
    /\ call["c1"].phase = "settled"
    /\ LET outcome == call["c1"].outcome[1]
           logged  == afterOrder(outcome.value)
       IN  IF outcome.threw THEN MainEnds(catch(run, outcome))
           ELSE IF logged.threw THEN MainEnds(catch(run, logged))
           ELSE MainEnds([run EXCEPT !.pc = "delay"])
    /\ UNCHANGED <<fx, clock>>

\* Lines 52-56: the two seconds have passed; the second balance query
Main_delayElapsed ==
    /\ run.pc = "delay"
    /\ \E t \in 0..MaxClock :
          /\ t > clock
          /\ clock' = t
          /\ MainRequest([run EXCEPT !.delays = @ + 1], client["c1"], t,
                         getBalance, "awaitBalance2")
    /\ UNCHANGED fx

\* Lines 56-74: the fiat balance, the threshold, the withdrawal or the end
Main_afterBalance2 ==
    /\ run.pc = "awaitBalance2"
    /\ call["c1"].phase = "settled"
    /\ LET outcome    == call["c1"].outcome[1]
           usdBalance == getAssetBalance(outcome.value, "ZUSD")
           r          == [run EXCEPT !.usdBalance = Some(usdBalance.value)]
           bigInt     == parseDecimalToBigInt(usdBalance.value, 4)
           minimum    == minimumWithdrawal(run.config[1])
       IN  IF outcome.threw THEN MainEnds(catch(run, outcome))
           ELSE IF usdBalance.threw THEN MainEnds(catch(run, usdBalance))
           ELSE IF ~bigInt.ok THEN MainEnds(catch(r, Throw(bigInt.error, <<"BigInt">>)))
           ELSE IF ~minimum.ok THEN MainEnds(catch(r, Throw(minimum.error, <<"BigInt">>)))
           ELSE IF shouldWithdraw(bigInt.value, minimum.value)
           THEN MainRequest(r, client["c1"], clock,
                            withdrawToMercury(usdBalance.value, <<>>), "awaitWithdraw")
           ELSE MainEnds(completed(r))
    /\ UNCHANGED <<fx, clock>>

\* Lines 65-74: the withdrawal's result, then the end
Main_afterWithdraw ==
    /\ run.pc = "awaitWithdraw"
    /\ call["c1"].phase = "settled"
    /\ LET outcome == call["c1"].outcome[1]
           logged  == afterWithdrawal(outcome.value)
       IN  IF outcome.threw THEN MainEnds(catch(run, outcome))
           ELSE IF logged.threw THEN MainEnds(catch(run, logged))
           ELSE MainEnds(completed(run))
    /\ UNCHANGED <<fx, clock>>

NextMain ==
    \/ Main_start
    \/ Main_response
    \/ Main_afterBalance1
    \/ Main_afterSell
    \/ Main_delayElapsed
    \/ Main_afterBalance2
    \/ Main_afterWithdraw

SpecMain == InitMain /\ [][NextMain]_vars

(***************************************************************************)
(* Claims about the orchestrator.                                          *)
(***************************************************************************)
SentTo(endpoint) == {i \in 1..Len(run.sent) : run.sent[i].endpoint = endpoint}

SellOrders == SentTo("/0/private/AddOrder")

Withdrawals == SentTo("/0/private/Withdraw")

Field(i, key) == String(Get(run.sent[i].payload, key))

\* main() has passed the point where it sells or not, or has ended before it
SellDecided == run.pc \notin {"start", "awaitBalance1"}

\* main() has sent the second balance query and has passed the point where
\* it withdraws or not, or has ended before it
WithdrawDecided ==
    /\ Cardinality(SentTo("/0/private/Balance")) = 2
    /\ run.pc \in {"awaitWithdraw", "done", "exited"}

ThresholdIsTen == run.env.MINIMUM_WITHDRAWAL_USD \in {<<>>, <<"1", "0">>}

\* C5: a market sell order for USDCUSD is placed exactly when the first
\* balance query succeeded and the balance at scale 8 is above zero; its
\* volume is the balance string as returned; "0.00000000" places none.
C5_SellIffPositiveBalance ==
    SellDecided =>
        /\ (SellOrders # {}) <=>
              /\ run.usdcBalance # None
              /\ parseDecimalToBigInt(run.usdcBalance[1], 8).ok
              /\ BigIntLess(Zero, parseDecimalToBigInt(run.usdcBalance[1], 8).value)
        /\ \A i \in SellOrders :
              /\ Field(i, "type") = <<"sell">>
              /\ Field(i, "ordertype") = <<"market">>
              /\ Field(i, "pair") = <<"USDCUSD">>
              /\ Field(i, "volume") = run.usdcBalance[1]
        /\ run.usdcBalance = Some(<<"0", ".", "0", "0", "0", "0", "0", "0", "0", "0">>) => SellOrders = {}
        /\ run.usdcBalance = Some(<<"1", "0", "0", ".", "0", "0", "0", "0", "0", "0", "0", "0">>) => SellOrders # {}

\* A run that sold 100.00000000 and went on to its end.
C5_Witness ==
    /\ run.pc = "done"
    /\ SellOrders # {}
    /\ run.usdcBalance = Some(<<"1", "0", "0", ".", "0", "0", "0", "0", "0", "0", "0", "0">>)

\* C6: in a run that reaches the second balance query, a withdrawal is
\* requested exactly when the fiat balance at scale 4 is at least the
\* threshold at scale 4: 10.0000 against 10 withdraws, 5.0000 does not,
\* 50.0000 does.
C6_WithdrawIffAtLeastThreshold ==
    WithdrawDecided =>
        /\ (Withdrawals # {}) <=>
              /\ run.usdBalance # None
              /\ parseDecimalToBigInt(run.usdBalance[1], 4).ok
              /\ minimumWithdrawal(run.config[1]).ok
              /\ ~BigIntLess(parseDecimalToBigInt(run.usdBalance[1], 4).value,
                             minimumWithdrawal(run.config[1]).value)
        /\ ThresholdIsTen =>
              /\ minimumWithdrawal(run.config[1]).value = <<"1", "0", "0", "0", "0", "0">>
              /\ run.usdBalance = Some(<<"5", ".", "0", "0", "0", "0">>) => Withdrawals = {}
              /\ run.usdBalance = Some(<<"9", ".", "9", "9", "9", "9">>) => Withdrawals = {}
              /\ run.usdBalance = Some(<<"1", "0", ".", "0", "0", "0", "0">>) => Withdrawals # {}
              /\ run.usdBalance = Some(<<"5", "0", ".", "0", "0", "0", "0">>) => Withdrawals # {}

\* A run with the default threshold that withdrew a balance equal to it.
C6_Witness ==
    /\ WithdrawDecided
    /\ run.env.MINIMUM_WITHDRAWAL_USD = <<>>
    /\ run.usdBalance = Some(<<"1", "0", ".", "0", "0", "0", "0">>)
    /\ Withdrawals # {}
    /\ run.pc = "done"

\* C7 (as stated): every withdrawal request names the withdrawal key loaded
\* from the configuration, and its amount is the fiat balance string the
\* second balance query returned.
C7_WithdrawalToConfiguredKey ==
    \A i \in Withdrawals :
        /\ Field(i, "key") = <<run.config[1].usdWithdrawalKey>>
        /\ Field(i, "amount") = run.usdBalance[1]

\* C8: a failure at any step ends the run: the step that fails issues no
\* request, the process exits with status 1, and nothing is issued after.
C8_FailureAbortsRun ==
    [][/\ (run.error = None /\ run'.error # None) =>
              (run'.sent = run.sent /\ run'.exit = Some(1))
       /\ (call["c1"].phase = "settled" /\ call["c1"].outcome[1].threw /\ run' # run) =>
              (run'.error = call["c1"].outcome /\ run'.sent = run.sent)
       /\ (run.exit = Some(1)) => (run' = run /\ call' = call /\ issued' = issued)
      ]_vars

\* A run whose sell order failed: two requests were sent and the run is over.
C8_Witness ==
    /\ run.exit = Some(1)
    /\ Len(run.sent) = 2
    /\ SellOrders # {}
    /\ run.error = call["c1"].outcome
    /\ call["c1"].endpoint = "/0/private/AddOrder"

\* A required environment variable is not set
ConfigMissing ==
    \/ run.env.KRAKEN_PUBLIC_KEY = ""
    \/ run.env.KRAKEN_SECRET_KEY = ""
    \/ run.env.USD_WITHDRAWAL_KEY = ""

\* C11: when the API key, the API secret or the withdrawal key is missing,
\* no client is ever constructed, no nonce is taken and no request is sent,
\* and the first step of main() ends the run with exit status 1.
C11_ConfigErrorAbortsBeforeClient ==
    ConfigMissing =>
        /\ DOMAIN client = {}
        /\ issued["c1"] = <<>>
        /\ call["c1"] = NoCall
        /\ run.sent = <<>>
        /\ run.pc # "start" =>
              (run.pc = "exited" /\ run.exit = Some(1) /\ run.error # None)

\* A run with both credentials set and only the withdrawal key missing has
\* ended at startup.
C11_Witness ==
    /\ run.env.KRAKEN_PUBLIC_KEY = "KEY"
    /\ run.env.KRAKEN_SECRET_KEY = "SECRET"
    /\ run.env.USD_WITHDRAWAL_KEY = ""
    /\ run.exit = Some(1)
    /\ run.error # None
    /\ run.error[1].threw
    /\ DOMAIN client = {}

EndpointsOf(sent) == [i \in 1..Len(sent) |-> sent[i].endpoint]

\* The request sequences of the pipeline, and their beginnings
PipelinePrefixes ==
    LET B == "/0/private/Balance"
        A == "/0/private/AddOrder"
        W == "/0/private/Withdraw"
    IN  { <<>>, <<B>>, <<B, A>>, <<B, B>>, <<B, A, B>>, <<B, B, W>>, <<B, A, B, W>> }

\* How far along the pipeline a position of main() is
PipelineRank(pc) ==
    CASE pc = "start"         -> 0
      [] pc = "awaitBalance1" -> 1
      [] pc = "awaitSell"     -> 2
      [] pc = "delay"         -> 3
      [] pc = "awaitBalance2" -> 4
      [] pc = "awaitWithdraw" -> 5
      [] OTHER                -> 6

\* C16: the requests of a run are, in order, Balance, at most one AddOrder,
\* Balance, at most one Withdraw; main() only moves forward; a request is
\* sent only when none is in flight and, unless it is the first, the
\* previous one was answered with a result; and the second balance query
\* comes after exactly one settlement delay, sell order or not.
C16_LinearPipeline ==
    /\ [](/\ EndpointsOf(run.sent) \in PipelinePrefixes
          /\ run.delays = (IF Cardinality(SentTo("/0/private/Balance")) = 2 THEN 1 ELSE 0)
          /\ run.pc = "delay" => run.delays = 0)
    /\ [][/\ run'.pc # run.pc => PipelineRank(run'.pc) > PipelineRank(run.pc)
          /\ run'.sent # run.sent =>
                /\ Len(run'.sent) = Len(run.sent) + 1
                /\ call["c1"].phase # "awaiting"
                /\ call'["c1"].phase = "awaiting"
                /\ run.sent # <<>> =>
                      /\ call["c1"].phase = "settled"
                      /\ call["c1"].response # None
                      /\ ~call["c1"].outcome[1].threw
          /\ (Cardinality(SentTo("/0/private/Balance")) = 1
              /\ Cardinality(SentTo("/0/private/Balance"))' = 2) =>
                (run.pc = "delay" /\ run'.delays = 1)
         ]_vars

\* A run that sold nothing, waited, queried again, withdrew and completed.
C16_Witness ==
    /\ run.pc = "done"
    /\ EndpointsOf(run.sent) =
          <<"/0/private/Balance", "/0/private/Balance", "/0/private/Withdraw">>
    /\ run.delays = 1

\* C18: a run sends at most two Balance requests, one AddOrder request and
\* one Withdraw request, one HTTP exchange for each call of request(); the
\* response to a call settles it without a further nonce or fetch, and a
\* call that failed is followed by the end of the run, not by a request.
C18_NoRetries ==
    /\ [](/\ Cardinality(SentTo("/0/private/Balance")) <= 2
          /\ Cardinality(SellOrders) <= 1
          /\ Cardinality(Withdrawals) <= 1
          /\ Len(issued["c1"]) = Len(run.sent)
          /\ call["c1"].phase # "idle" =>
                (call["c1"].response # None => call["c1"].fetch # None))
    /\ [][/\ (call["c1"].phase = "awaiting" /\ call'["c1"].phase = "settled") =>
                /\ issued' = issued
                /\ client' = client
                /\ run' = run
                /\ call'["c1"].fetch = call["c1"].fetch
                /\ call'["c1"].nonce = call["c1"].nonce
          /\ (call["c1"].phase = "settled" /\ call["c1"].outcome[1].threw /\ run' # run) =>
                /\ call' = call
                /\ issued' = issued
                /\ run'.sent = run.sent
                /\ run'.pc = "exited"
         ]_vars

\* A run whose withdrawal, its fourth request, was refused by the exchange:
\* the run ended with four requests sent and four nonces taken.
C18_Witness ==
    /\ run.pc = "exited"
    /\ Len(run.sent) = 4
    /\ Len(issued["c1"]) = 4
    /\ Withdrawals # {}
    /\ call["c1"].endpoint = "/0/private/Withdraw"
    /\ call["c1"].response # None
    /\ call["c1"].outcome[1].threw

(***************************************************************************)
(* index.ts.old: the single-file bot.  Its module body reads the two       *)
(* credentials and throws outside any try block when one is not set, then  *)
(* builds the default client (the base URL is the default) and calls       *)
(* main().  Its request() differs from the client's only in the text of    *)
(* the HTTP error; its wrappers build the same bodies.  It is run here     *)
(* beside the refactored main(), in fx, as client "old", on the same       *)
(* environment, and each response of the exchange goes to both.            *)
(***************************************************************************)
\* index.ts.old: request() after the fetch
old_requestFinish(response) ==
    IF response.rejected THEN Throw("TypeError", <<"fetch failed">>)
    ELSE IF ~ok(response)
    THEN Throw("Error", <<"Kraken API error: ">> \o NatToString(response.status)
                        \o <<" ", response.statusText, " - ", response.text>>)
    ELSE IF ~response.json.ok THEN Throw("SyntaxError", <<"response.json">>)
    ELSE IF response.json.type = "null"
    THEN Throw("TypeError", <<"null has no properties">>)
    ELSE IF response.json.error # None /\ Len(response.json.error[1]) > 0
    THEN Throw("Error", <<"Kraken API error: ">> \o join(response.json.error[1], ", "))
    ELSE Return(response.json.result)

\* index.ts.old: catch (error) { console.error("Error:", error); }
old_catch(r, error) == [r EXCEPT !.pc = "exited", !.error = Some(error), !.exit = Some(0)]

\* index.ts.old: an error thrown by the module body is not caught
old_uncaught(r, error) == [r EXCEPT !.pc = "exited", !.error = Some(error), !.exit = Some(1)]

\* index.ts.old: if (usdBalanceBigInt >= 100000n)
old_shouldWithdraw(usdBalanceBigInt) ==
    ~BigIntLess(usdBalanceBigInt, <<"1", "0", "0", "0", "0", "0">>)

\* index.ts.old calls krakenClient.request and awaits it
OldRequest(r, self, timestamp, apiCall, awaiting) ==
    LET started == requestStart(self, timestamp, apiCall.endpoint, apiCall.options)
    IN  /\ Started("old", self, started)
        /\ fx' = IF started.phase = "settled" THEN old_catch(r, started.outcome[1])
                 ELSE [r EXCEPT !.pc = awaiting,
                                !.sent = Append(@, [endpoint |-> apiCall.endpoint,
                                                    payload  |-> started.payload])]

OldEnds(r) ==
    /\ fx' = r
    /\ UNCHANGED <<client, issued, call>>

\* The module body, then main() to its first await
Old_start ==
    /\ fx.pc = "start"
    /\ IF fx.env.KRAKEN_PUBLIC_KEY = ""
       THEN OldEnds(old_uncaught(fx, Throw("Error", <<"KRAKEN_PUBLIC_KEY is not set">>)))
       ELSE IF fx.env.KRAKEN_SECRET_KEY = ""
       THEN OldEnds(old_uncaught(fx, Throw("Error", <<"KRAKEN_SECRET_KEY is not set">>)))
       ELSE OldRequest(fx,
                       newKrakenClient([apiKey  |-> fx.env.KRAKEN_PUBLIC_KEY,
                                        secret  |-> fx.env.KRAKEN_SECRET_KEY,
                                        baseUrl |-> None], clock).value,
                       clock, getBalance, "awaitBalance1")
    /\ UNCHANGED <<clock, run>>

Old_afterBalance1 ==
    /\ fx.pc = "awaitBalance1"
    /\ call["old"].phase = "settled"
    /\ LET outcome     == call["old"].outcome[1]
           usdcBalance == getAssetBalance(outcome.value, "USDC")
           r           == [fx EXCEPT !.usdcBalance = Some(usdcBalance.value)]
           bigInt      == parseDecimalToBigInt(usdcBalance.value, 8)
       IN  IF outcome.threw THEN OldEnds(old_catch(fx, outcome))
           ELSE IF usdcBalance.threw THEN OldEnds(old_catch(fx, usdcBalance))
           ELSE IF ~bigInt.ok THEN OldEnds(old_catch(r, Throw(bigInt.error, <<"BigInt">>)))
           ELSE IF shouldSell(bigInt.value)
           THEN OldRequest(r, client["old"], clock,
                           sellUSDCToUSD(usdcBalance.value, <<>>), "awaitSell")
           ELSE OldRequest(r, client["old"], clock, getBalance, "awaitBalance2")
    /\ UNCHANGED <<clock, run>>

\* The order's result is logged as a whole; the second balance query follows
\* at once
Old_afterSell ==
    /\ fx.pc = "awaitSell"
    /\ call["old"].phase = "settled"
    /\ LET outcome == call["old"].outcome[1]
       IN  IF outcome.threw THEN OldEnds(old_catch(fx, outcome))
           ELSE OldRequest(fx, client["old"], clock, getBalance, "awaitBalance2")
    /\ UNCHANGED <<clock, run>>

Old_afterBalance2 ==
    /\ fx.pc = "awaitBalance2"
    /\ call["old"].phase = "settled"
    /\ LET outcome    == call["old"].outcome[1]
           usdBalance == getAssetBalance(outcome.value, "ZUSD")
           r          == [fx EXCEPT !.usdBalance = Some(usdBalance.value)]
           bigInt     == parseDecimalToBigInt(usdBalance.value, 4)
       IN  IF outcome.threw THEN OldEnds(old_catch(fx, outcome))
           ELSE IF usdBalance.threw THEN OldEnds(old_catch(fx, usdBalance))
           ELSE IF ~bigInt.ok THEN OldEnds(old_catch(r, Throw(bigInt.error, <<"BigInt">>)))
           ELSE IF old_shouldWithdraw(bigInt.value)
           THEN OldRequest(r, client["old"], clock,
                           withdrawToMercury(usdBalance.value, <<>>), "awaitWithdraw")
           ELSE OldEnds(completed(r))
    /\ UNCHANGED <<clock, run>>

Old_afterWithdraw ==
    /\ fx.pc = "awaitWithdraw"
    /\ call["old"].phase = "settled"
    /\ LET outcome == call["old"].outcome[1]
           logged  == afterWithdrawal(outcome.value)
       IN  IF outcome.threw THEN OldEnds(old_catch(fx, outcome))
           ELSE IF logged.threw THEN OldEnds(old_catch(fx, logged))
           ELSE OldEnds(completed(fx))
    /\ UNCHANGED <<clock, run>>

Ended(r) == r.pc \in {"done", "exited"}

Awaits(c) == call[c].phase = "awaiting"

\* The exchange answers: the program that awaits a response gets it, and
\* when both await one (each its k-th) both get the same
Both_response ==
    /\ Awaits("c1") \/ Awaits("old")
    /\ Awaits("c1") \/ Ended(run)
    /\ Awaits("old") \/ Ended(fx)
    /\ (Awaits("c1") /\ Awaits("old")) => call["c1"].endpoint = call["old"].endpoint
    /\ \E response \in Responses(MainBodies(IF Awaits("c1") THEN call["c1"].endpoint
                                            ELSE call["old"].endpoint)) :
          call' = [c \in DOMAIN call |->
                     IF ~Awaits(c) THEN call[c]
                     ELSE [call[c] EXCEPT
                             !.phase = "settled",
                             !.response = Some(response),
                             !.outcome = Some(IF c = "old" THEN old_requestFinish(response)
                                              ELSE requestFinish(response))]]
    /\ UNCHANGED <<fx, clock, client, issued, run>>

InitMigration ==
    /\ clock = 0
    /\ client = [c \in {} |-> 0]
    /\ issued = [c \in {"c1", "old"} |-> <<>>]
    /\ call = [c \in {"c1", "old"} |-> NoCall]
    /\ run \in [pc : {"start"}, env : Env, config : {None}, usdcBalance : {None},
                usdBalance : {None}, sent : {<<>>}, delays : {0}, error : {None},
                exit : {None}]
    /\ fx = [pc |-> "start", env |-> run.env, usdcBalance |-> None, usdBalance |-> None,
             sent |-> <<>>, error |-> None, exit |-> None]

NextMigration ==
    \/ Main_start
    \/ Main_afterBalance1
    \/ Main_afterSell
    \/ Main_delayElapsed
    \/ Main_afterBalance2
    \/ Main_afterWithdraw
    \/ Old_start
    \/ Old_afterBalance1
    \/ Old_afterSell
    \/ Old_afterBalance2
    \/ Old_afterWithdraw
    \/ Both_response

SpecMigration == InitMigration /\ [][NextMigration]_vars

\* The requests of a run: each one's endpoint and the body fields handed to
\* request(), the nonce aside
RequestsOf(sent) ==
    [i \in 1..Len(sent) |->
        [endpoint |-> sent[i].endpoint,
         body     |-> SelectSeq(sent[i].payload, LAMBDA e : e[1] # "nonce")]]

\* C15 (as stated): on the same environment and the same responses,
\* index.ts and index.ts.old issue the same private requests (endpoints and
\* body fields) and end the same way (failed or not, same exit status).
C15_SameRequestsAndOutcome ==
    (Ended(run) /\ Ended(fx)) =>
        /\ RequestsOf(run.sent) = RequestsOf(fx.sent)
        /\ (run.error = None) <=> (fx.error = None)
        /\ run.exit = fx.exit

(***************************************************************************)
(* One process after another: the first process constructs its client and  *)
(* makes requests; it ends, at any moment, and the next process constructs *)
(* a client of its own from the clock.  The clock only moves forward.      *)
(***************************************************************************)
ResultBody == { [text |-> "{error:[],result:R}", json |-> Envelope(Some(<<>>), Some("R"))] }

InitRestart ==
    /\ fx = Idle
    /\ clock \in 0..MaxClock
    /\ client = [c \in {"run1"} |-> newKrakenClient(GoodConfig, clock).value]
    /\ issued = [c \in {"run1", "run2"} |-> <<>>]
    /\ call = [c \in {"run1", "run2"} |-> NoCall]
    /\ run = [process |-> "run1"]

\* Time passes
ClockForward ==
    /\ \E t \in 0..MaxClock : t > clock /\ clock' = t
    /\ UNCHANGED <<fx, client, issued, call, run>>

\* The running process calls request() on its client
ProcessRequest == Request(run.process, "/0/private/Balance", NoOptions)

ProcessSettle ==
    \E response \in Responses(ResultBody) : RequestSettle(run.process, response)

\* The process ends and the bot is started again: new KrakenClient(config)
Restart ==
    /\ run.process = "run1"
    /\ run' = [process |-> "run2"]
    /\ client' = [c \in {"run1", "run2"} |->
                    IF c = "run2" THEN newKrakenClient(GoodConfig, clock).value
                    ELSE client[c]]
    /\ UNCHANGED <<fx, clock, issued, call>>

NextRestart == ClockForward \/ ProcessRequest \/ ProcessSettle \/ Restart

SpecRestart == InitRestart /\ [][NextRestart]_vars

\* C19 (as stated): with a clock that never moves backward, the first nonce
\* of the client a restarted process constructs is strictly greater than
\* every nonce the earlier process's client issued.
C19_NoRegressionAcrossRestart ==
    issued["run2"] # <<>> =>
        \A i \in 1..Len(issued["run1"]) : issued["run2"][1] > issued["run1"][i]

(***************************************************************************)
(* Two clients constructed from the same key and secret, each making       *)
(* requests that overlap the other's, under an arbitrary clock.            *)
(***************************************************************************)
InitTwoClients ==
    /\ fx = Idle
    /\ clock \in 0..MaxClock
    /\ \E t1, t2 \in 0..MaxClock :
          client = [c \in {"c1", "c2"} |->
                      newKrakenClient(GoodConfig, IF c = "c1" THEN t1 ELSE t2).value]
    /\ issued = [c \in {"c1", "c2"} |-> <<>>]
    /\ call = [c \in {"c1", "c2"} |-> NoCall]
    /\ run = Idle

EitherRequest == \E c \in {"c1", "c2"} : Request(c, "/0/private/Balance", NoOptions)

EitherSettle ==
    \E c \in {"c1", "c2"}, response \in Responses(ResultBody) : RequestSettle(c, response)

NextTwoClients == ClockAdvance \/ EitherRequest \/ EitherSettle

SpecTwoClients == InitTwoClients /\ [][NextTwoClients]_vars

\* C20: two clients of one key and secret keep a last-issued value each: a
\* nonce taken by one is max(now, its own last value + 1), whatever the
\* other has issued, and leaves the other's last value and nonces as they
\* were.  (The state in which both have the same nonce in flight is
\* C20_Witness.)
C20_NothingCoordinatesTwoClients ==
    /\ [](/\ client["c1"].apiKey = client["c2"].apiKey
          /\ client["c1"].secret = client["c2"].secret)
    /\ [][\A c \in {"c1", "c2"} :
             issued'[c] # issued[c] =>
                 /\ issued'[c] = Append(issued[c], Max(clock, client[c].nonceCounter + 1))
                 /\ \A d \in {"c1", "c2"} \ {c} :
                       client'[d] = client[d] /\ issued'[d] = issued[d]
         ]_vars

\* Both clients have a request in flight, signed with the same key and
\* secret and carrying the same nonce.
C20_Witness ==
    /\ call["c1"].phase = "awaiting"
    /\ call["c2"].phase = "awaiting"
    /\ call["c1"].nonce = call["c2"].nonce
    /\ call["c1"].nonce # None
    /\ call["c1"].fetch[1].headers[1] = call["c2"].fetch[1].headers[1]
    /\ call["c1"].fetch[1].body = call["c2"].fetch[1].body
    /\ \E i \in 1..Len(issued["c1"]), j \in 1..Len(issued["c2"]) :
          issued["c1"][i] = issued["c2"][j]

(***************************************************************************)
(* One client whose caller passes bodies that carry a nonce or an otp of   *)
(* their own, with no otp, an empty otp or an otp in the options; the      *)
(* exchange answers with a result, an API error, an HTTP error or not at   *)
(* all.                                                                    *)
(***************************************************************************)
PayloadOptions ==
    [method : {None},
     body   : {None,
               Some(<< <<"asset", Str(<<"USD">>)>> >>),
               Some(<< <<"nonce", Num(0)>>, <<"validate", Bool(TRUE)>> >>),
               Some(<< <<"otp", Str(<<"999">>)>>, <<"asset", Str(<<"USD">>)>> >>),
               Some(<< <<"asset", Str(<<"USD">>)>>, <<"nonce", Num(9)>>,
                       <<"otp", Str(<<"999">>)>> >>)},
     otp    : {None, Some(<<>>), Some(<<"123456">>)}]

ErrorBody == { [text |-> "{error:[E1]}", json |-> Envelope(Some(<<EInvalidArgs>>), None)] }

InitPayload ==
    /\ fx = Idle
    /\ clock \in 0..MaxClock
    /\ client = [c \in {"c1"} |-> newKrakenClient(GoodConfig, clock).value]
    /\ issued = [c \in {"c1"} |-> <<>>]
    /\ call = [c \in {"c1"} |-> NoCall]
    /\ run = Idle

CallerRequest == \E options \in PayloadOptions : Request("c1", "/0/private/Withdraw", options)

CallerSettle ==
    \E response \in Responses(ResultBody \cup ErrorBody) : RequestSettle("c1", response)

NextPayload == ClockAdvance \/ CallerRequest \/ CallerSettle

SpecPayload == InitPayload /\ [][NextPayload]_vars

\* The entries of an object under keys other than nonce and otp, in order
OtherFields(obj) == SelectSeq(obj, LAMBDA e : e[1] \notin {"nonce", "otp"})

\* The values an object holds under a key
ValuesAt(obj, key) == { obj[i][2] : i \in {j \in 1..Len(obj) : obj[j][1] = key} }

C22_NonceAdvancesOnceAndStays ==
    /\ [](\A c \in DOMAIN client :
             /\ client[c].apiKey = GoodConfig.apiKey
             /\ client[c].secret = GoodConfig.secret
             /\ client[c].baseUrl = DefaultBaseUrl
             /\ (call[c].phase # "idle" /\ call[c].kind = "request") =>
                   /\ client[c].nonceCounter = call[c].nonce[1]
                   /\ call[c].fetch # None =>
                         call[c].fetch[1].headers[2][2].digest.prefix =
                            NatToString(client[c].nonceCounter))
    /\ [][\A c \in DOMAIN client :
             /\ (call'[c] # call[c] /\ call'[c].phase = "awaiting") =>
                   /\ Len(issued'[c]) = Len(issued[c]) + 1
                   /\ client'[c].nonceCounter > client[c].nonceCounter
                   /\ client'[c].nonceCounter = issued'[c][Len(issued'[c])]
             /\ (call[c].phase = "awaiting" /\ call'[c].phase = "settled") =>
                   /\ client'[c] = client[c]
                   /\ issued'[c] = issued[c]
         ]_vars

\* A second request that failed with an API error: the last-issued value is
\* still its nonce.
C22_Witness ==
    /\ Len(issued["c1"]) = 2
    /\ call["c1"].phase = "settled"
    /\ call["c1"].outcome[1].threw
    /\ call["c1"].response[1] # Rejected
    /\ call["c1"].response[1].status = 200
    /\ client["c1"].nonceCounter = issued["c1"][2]

\* C23 (as stated): whenever main() requests a withdrawal, the fiat balance
\* at scale 4 is strictly positive; a zero balance, the "0.00000000" that
\* stands for an asset absent from the balance map included, is never
\* withdrawn.
C23_WithdrawalOnlyOfPositiveBalance ==
    \A i \in Withdrawals :
        /\ run.usdBalance # None
        /\ parseDecimalToBigInt(run.usdBalance[1], 4).ok
        /\ BigIntLess(Zero, parseDecimalToBigInt(run.usdBalance[1], 4).value)
        /\ Field(i, "amount") # DefaultBalance

\* C24 (as stated): once loadConfig and validateConfig have accepted the
\* configuration, BigInt(config.minimumWithdrawalUSD * 10_000) yields a
\* value, and no run ends on that conversion after a request was sent.
C24_AcceptedThresholdConverts ==
    /\ run.config # None => minimumWithdrawal(run.config[1]).ok
    /\ (run.error # None /\ run.sent # <<>>) => run.error[1].name # "RangeError"

(***************************************************************************)
(* One client making private and public requests with no options, against  *)
(* every kind of answer: no HTTP response, a non-2xx status, a 2xx body    *)
(* that is not JSON, JSON null, a JSON number, or an envelope with or      *)
(* without an error list and with or without a result.                     *)
(***************************************************************************)
NumberBody ==
    { [text |-> "123", json |-> [ok |-> TRUE, type |-> "number",
                                 error |-> None, result |-> None]] }

InitEnvelope ==
    /\ fx = Idle
    /\ clock \in 0..MaxClock
    /\ client = [c \in {"c1"} |-> newKrakenClient(GoodConfig, clock).value]
    /\ issued = [c \in {"c1"} |-> <<>>]
    /\ call = [c \in {"c1"} |-> NoCall]
    /\ run = Idle

PrivateCall == Request("c1", "/0/private/Balance", NoOptions)

PrivateAnswer ==
    \E response \in Responses(ClientBodies \cup NumberBody) : RequestSettle("c1", response)

PublicCall == PublicRequest("c1", "/0/public/Ticker", None)

PublicAnswer ==
    \E response \in Responses(ClientBodies \cup NumberBody) :
        PublicRequestSettle("c1", response)

NextEnvelope == PrivateCall \/ PrivateAnswer \/ PublicCall \/ PublicAnswer

SpecEnvelope == InitEnvelope /\ [][NextEnvelope]_vars

\* C25 (as stated): request() and publicRequest() fail if and only if the
\* HTTP status is not 2xx or the envelope's error list is not empty; in
\* every other case they return the envelope's result as it is.
C25_FailsIffStatusOrErrors ==
    \A c \in DOMAIN call :
        Responded(c) =>
            /\ TheOutcome(c).threw <=>
                  \/ ~TheResponse(c).rejected /\ ~Is2xx(TheResponse(c))
                  \/ HasErrors(TheResponse(c))
            /\ ~TheOutcome(c).threw => TheOutcome(c).value = TheResponse(c).json.result

\* C25 (amended): request() and publicRequest() fail if and only if the
\* fetch gives no HTTP response, the status is not 2xx, the 2xx body is not
\* JSON or is JSON null, or the envelope's error list is not empty; in every
\* other case they return the result field as it is, absent when the body
\* has none.
C25_FailsIffNoUsableEnvelopeOrErrors ==
    \A c \in DOMAIN call :
        Responded(c) =>
            /\ TheOutcome(c).threw <=>
                  \/ TheResponse(c).rejected
                  \/ ~Is2xx(TheResponse(c))
                  \/ ~TheResponse(c).json.ok
                  \/ TheResponse(c).json.type = "null"
                  \/ HasErrors(TheResponse(c))
            /\ ~TheOutcome(c).threw =>
                  /\ TheOutcome(c).value = TheResponse(c).json.result
                  /\ call[c].kind = "request" => client[c].nonceCounter = call[c].nonce[1]

\* A private request answered 200 with an empty error list and no result
\* field: the call returned, with an absent result.
C25_Witness ==
    /\ Settled("c1", "request")
    /\ Responded("c1")
    /\ Is2xx(TheResponse("c1"))
    /\ TheResponse("c1").json = Envelope(Some(<<>>), None)
    /\ TheOutcome("c1") = Return(None)

=============================================================================
